---- MODULE Spec2Model ----
(***************************************************************************)
(* The HNSW flat index writer of the vector storage engine                 *)
(* (src/src/storage/src/hummock/vector/writer/hnsw.rs) together with the   *)
(* holder search of src/src/storage/src/hummock/vector/mod.rs.             *)
(*                                                                         *)
(* A vector and its info bytes are one opaque payload, and the payload of  *)
(* the k-th vector of the index is the tag vec_of(k), so that a read that  *)
(* lands on another vector's slot is told apart.  The HNSW graph is        *)
(* the sequence of vector ids its nodes were created for, in node order:   *)
(* levels and neighbour lists play no part in the writer's bookkeeping.    *)
(* VectorFileBuilder (file.rs) follows sections 4.2 and 4.3 of the spec.   *)
(***************************************************************************)
EXTENDS Integers, Sequences, FiniteSets, TLC

\* ---------------------------------------------------------------- bounds
\* Inserts performed by one writer.
MaxInserts == 2
\* Largest next_vector_id of the index the writer is constructed from.
MaxInit == 1
\* Largest object id the object id manager hands out.
MaxObjectId == 4
\* Largest number of graph nodes (retries after a failed graph insertion
\* may add nodes without bound).
MaxNodes == 2

VARIABLES
    \* HnswVectorStore
    committed_vector_files, committed_next_vector_id,
    sealed_vector_files, sealed_next_vector_id,
    flushed_vector_files, flushed_next_vector_id,
    building_vectors,
    \* HnswFlatIndexWriter
    next_pending_vector_id, graph_builder, flushed_graph_file,
    \* collaborators: sstable store (vector files by object id), object ids
    vector_cache, next_object_id,
    \* what the last operation returned, and whether one has panicked
    ret, panicked

VARIABLES
    \* a call of search_vector: the holders, the id, the result
    search_holders, search_idx, search_ret

search_vars == <<search_holders, search_idx, search_ret>>

VARIABLES
    \* the distance kernels: the target vector a measure is built for, the
    \* vector measured against it, and what the kernels returned
    dist_target, dist_other, dist_ret

distance_vars == <<dist_target, dist_other, dist_ret>>

VARIABLES
    \* a Cursor: what is left of the values stream of its response, its
    \* fields, whether Cursor::new has made it, and what the last call returned
    values_stream, data_chunk_cache, rw_timestamp, is_snapshot,
    cursor_made, cursor_ret

cursor_vars == <<values_stream, data_chunk_cache, rw_timestamp, is_snapshot,
                 cursor_made, cursor_ret>>

VARIABLES
    \* a session: the log store of the subscription, the clock, the drop time
    \* the cursor manager keeps beside its cursor, the timestamp the cursor
    \* was declared from, the rows the fetches have returned, and what the
    \* last fetch returned
    log_store, now, cursor_need_drop_time, cursor_start, fetched, fetch_ret

fetch_vars == <<log_store, now, cursor_need_drop_time, cursor_start,
                fetched, fetch_ret>>

\* The state outside the writer.
other_vars == <<search_vars, distance_vars, cursor_vars, fetch_vars>>

vars == <<committed_vector_files, committed_next_vector_id,
          sealed_vector_files, sealed_next_vector_id,
          flushed_vector_files, flushed_next_vector_id,
          building_vectors,
          next_pending_vector_id, graph_builder, flushed_graph_file,
          vector_cache, next_object_id,
          ret, panicked, other_vars>>

\* The writer's own fields (everything insert / flush / seal may touch
\* besides the building tier).
store_tiers == <<committed_vector_files, committed_next_vector_id,
                 sealed_vector_files, sealed_next_vector_id,
                 flushed_vector_files, flushed_next_vector_id>>

\* ---------------------------------------------------------------- Option
None == <<>>
Some(x) == <<x>>
IsSome(o) == o # <<>>
Unwrap(o) == o[1]

\* A fallible result: ok, the value (0 when none) and the error text.
Ok(v) == [ok |-> TRUE, val |-> v, err |-> ""]
Err(e) == [ok |-> FALSE, val |-> 0, err |-> e]

\* -------------------------------------------------------- search_vector
\* slice::partition_point: binary search for the first holder that fails
\* the predicate `start_vector_id <= idx`.
RECURSIVE partition_search(_, _, _, _)
partition_search(holders, idx, left, right) ==
    IF left >= right THEN left
    ELSE LET mid == left + ((right - left) \div 2)
         IN  IF holders[mid + 1].start_vector_id <= idx
             THEN partition_search(holders, idx, mid + 1, right)
             ELSE partition_search(holders, idx, left, mid)

partition_point(holders, idx) == partition_search(holders, idx, 0, Len(holders))

\* search_vector_inclusive: the range check with > in place of >=.
search_vector_inclusive(holders, idx) ==
    LET pp == partition_point(holders, idx)
    IN  IF pp = 0
        THEN [ok |-> FALSE, h |-> 0, off |-> 0, err |-> "too small"]
        ELSE LET holder == holders[pp]
                 offset == idx - holder.start_vector_id
             IN  IF offset > holder.vector_count
                 THEN [ok |-> FALSE, h |-> 0, off |-> 0, err |-> "out of range"]
                 ELSE [ok |-> TRUE, h |-> pp - 1, off |-> offset, err |-> ""]

\* (holder_idx, offset inside holder), holder_idx counted from 0 as in the code.
search_vector(holders, idx) ==
    LET pp == partition_point(holders, idx)
    IN  IF pp = 0
        THEN [ok |-> FALSE, h |-> 0, off |-> 0, err |-> "too small"]
        ELSE LET holder == holders[pp]
                 offset == idx - holder.start_vector_id
             IN  IF offset >= holder.vector_count
                 THEN [ok |-> FALSE, h |-> 0, off |-> 0, err |-> "out of range"]
                 ELSE [ok |-> TRUE, h |-> pp - 1, off |-> offset, err |-> ""]

\* get_vector_block: locate the file, fetch its meta, locate the block,
\* fetch the block.  cache maps an object id to the file's blocks.
get_vector_block(cache, files, idx) ==
    LET f == search_vector(files, idx)
    IN  IF ~f.ok THEN Err(f.err)
        ELSE LET vector_file == files[f.h + 1]
             IN  IF vector_file.object_id \notin DOMAIN cache
                 THEN Err("no such object")
                 ELSE LET block_metas == cache[vector_file.object_id]
                          b == search_vector(block_metas, idx)
                      IN  IF ~b.ok THEN Err(b.err)
                          ELSE Ok(block_metas[b.h + 1].vecs[b.off + 1])

\* ---------------------------------------------------- VectorFileBuilder
\* The builder holds the finished blocks of the file under construction,
\* the vectors of the current (partial) block and the next id to assign:
\*   [blocks |-> Seq(block), block |-> Seq(payload), next_vector_id |-> Nat]
\* with block = [start_vector_id, vector_count, vecs].
new_vector_file_builder(next_vector_id) ==
    [blocks |-> <<>>, block |-> <<>>, next_vector_id |-> next_vector_id]

\* Outcomes of the builder's suspension points when it finalizes a file:
\* the object id allocation fails, the upload fails, or both succeed.
IoOutcomes == {"ok", "alloc_err", "upload_err"}

RECURSIVE SumCounts(_)
SumCounts(holders) ==
    IF holders = <<>> THEN 0
    ELSE Head(holders).vector_count + SumCounts(Tail(holders))

\* VectorBlockBuilder::finish as the file builder uses it: the current
\* block, when non-empty, becomes the last finished block of the file.
block_finish(b) ==
    IF b.block = <<>> THEN b
    ELSE [b EXCEPT
            !.blocks = Append(@, [start_vector_id |-> b.next_vector_id - Len(b.block),
                                  vector_count |-> Len(b.block),
                                  vecs |-> b.block]),
            !.block = <<>>]

\* add: append to the current block; finish the block when its encoded
\* size has reached BLOCK_CAP (block_full: the size depends on the info
\* bytes' length, which the caller chooses).
builder_add(b, v, block_full) ==
    LET b1 == [b EXCEPT !.block = Append(@, v), !.next_vector_id = @ + 1]
    IN  IF block_full THEN block_finish(b1) ELSE b1

builder_is_empty(b) == b.blocks = <<>> /\ b.block = <<>>

\* get_vector: the ids of the file under construction, from the current
\* block (EnumVectorAccessor::Builder) or a finished one (BlockRef).
builder_get_vector(b, idx) ==
    IF idx >= b.next_vector_id THEN Err("out of bounds for building vectors")
    ELSE IF idx >= b.next_vector_id - Len(b.block)
    THEN Ok(b.block[idx - (b.next_vector_id - Len(b.block)) + 1])
    ELSE LET s == search_vector(b.blocks, idx)
         IN  IF s.ok THEN Ok(b.blocks[s.h + 1].vecs[s.off + 1]) ELSE Err(s.err)

\* Finalize the file of the finished blocks: allocate an object id, upload
\* blocks and footer, start the next file at the current block.
\* Called with b.blocks non-empty.
finalize_file(b, io, noid, cache) ==
    IF io = "alloc_err"
    THEN [ok |-> FALSE, builder |-> b, noid |-> noid, cache |-> cache, file |-> None]
    ELSE IF io = "upload_err"
    THEN [ok |-> FALSE, builder |-> b, noid |-> noid + 1, cache |-> cache, file |-> None]
    ELSE [ok |-> TRUE,
          builder |-> [b EXCEPT !.blocks = <<>>],
          noid |-> noid + 1,
          cache |-> (noid :> b.blocks) @@ cache,
          file |-> Some([object_id |-> noid,
                         file_size |-> SumCounts(b.blocks) + Len(b.blocks),
                         start_vector_id |-> b.blocks[1].start_vector_id,
                         vector_count |-> SumCounts(b.blocks)])]

\* try_flush: honour the size thresholds without finishing the current
\* block: when the finished blocks have reached FILE_CAP (file_full), the
\* file is finalized and uploaded.  It returns () to its caller.
builder_try_flush(b, file_full, io, noid, cache) ==
    IF file_full /\ b.blocks # <<>>
    THEN finalize_file(b, io, noid, cache)
    ELSE [ok |-> TRUE, builder |-> b, noid |-> noid, cache |-> cache, file |-> None]

\* finish: finalize the current block if non-empty, then the file; none
\* when no data is buffered.
builder_finish(b, io, noid, cache) ==
    LET b1 == block_finish(b)
    IN  IF b1.blocks = <<>>
        THEN [ok |-> TRUE, builder |-> b1, noid |-> noid, cache |-> cache, file |-> None]
        ELSE finalize_file(b1, io, noid, cache)

\* ------------------------------------------------------ HnswVectorStore
building_next == building_vectors.next_vector_id

\* get_vector whose last arm hands out a zeroed accessor instead of an error.
get_vector_no_bound(idx) ==
    IF idx < flushed_next_vector_id
    THEN get_vector_block(vector_cache,
            committed_vector_files \o sealed_vector_files \o flushed_vector_files, idx)
    ELSE IF idx < building_vectors.next_vector_id
    THEN builder_get_vector(building_vectors, idx)
    ELSE Ok(0)

\* get_vector: dispatch by the four boundaries.
get_vector(idx) ==
    IF idx < committed_next_vector_id
    THEN get_vector_block(vector_cache, committed_vector_files, idx)
    ELSE IF idx < sealed_next_vector_id
    THEN get_vector_block(vector_cache, sealed_vector_files, idx)
    ELSE IF idx < flushed_next_vector_id
    THEN get_vector_block(vector_cache, flushed_vector_files, idx)
    ELSE IF idx < building_vectors.next_vector_id
    THEN builder_get_vector(building_vectors, idx)
    ELSE Err("out of bounds for all vector")

\* flushed_next_vector_id after a file was pushed: the builder's next id
\* (flushed_next_past: one past it, an off-by-one on the exclusive bound).
flushed_next_past(file, b) == file.start_vector_id + file.vector_count + 1
flushed_next_after(file, b) == b.next_vector_id

\* HnswVectorStore::flush: finish the file builder; on a new file, insert
\* it into the cache, push it to flushed_vector_files and move
\* flushed_next_vector_id to the builder's next id.
vector_store_flush(io) ==
    LET fin == builder_finish(building_vectors, io, next_object_id, vector_cache)
    IN  IF ~fin.ok
        THEN [ok |-> FALSE, size |-> 0, builder |-> fin.builder,
              files |-> flushed_vector_files, next |-> flushed_next_vector_id,
              noid |-> fin.noid, cache |-> fin.cache]
        ELSE IF IsSome(fin.file)
        THEN [ok |-> TRUE, size |-> Unwrap(fin.file).file_size,
              builder |-> fin.builder,
              files |-> Append(flushed_vector_files, Unwrap(fin.file)),
              next |-> flushed_next_after(Unwrap(fin.file), fin.builder),
              noid |-> fin.noid, cache |-> fin.cache]
        ELSE [ok |-> TRUE, size |-> 0, builder |-> fin.builder,
              files |-> flushed_vector_files, next |-> flushed_next_vector_id,
              noid |-> fin.noid, cache |-> fin.cache]

\* -------------------------------------------------- HnswFlatIndexWriter
\* The graph builder's nodes, or <<>> when there is no builder.
graph_nodes(g) == IF IsSome(g) THEN Unwrap(g) ELSE <<>>

\* get_vector of the store as an operation finds it, with b for its file
\* builder.
store_get_vector(b, idx) ==
    IF idx < flushed_next_vector_id THEN get_vector(idx)
    ELSE IF idx < b.next_vector_id THEN builder_get_vector(b, idx)
    ELSE Err("out of bounds for all vector")

\* insert_graph measures the new vector against the entry point before
\* anything else: the vector of some node has to be readable from the store.
entry_readable(b, g) ==
    \E k \in 1..Len(Unwrap(g)) : store_get_vector(b, Unwrap(g)[k]).ok

\* add_pending_vectors_to_graph over the builder b: for each pending id in
\* increasing order, the first ever node through HnswGraphBuilder::first,
\* every other through insert_graph, which reads the vector from the
\* builder, reads the vectors of the nodes it visits from the store and
\* may fail on such a read (fail_at: the id at which it does, -1 for none).
\* An error returns at once and leaves next_pending as it was; success
\* moves it to the builder's next id.
\* add_pending_loop_no_first: the else branch that makes the first node
\* left out.
RECURSIVE add_pending_loop_no_first(_, _, _, _)
add_pending_loop_no_first(b, i, g, fail_at) ==
    IF i >= b.next_vector_id
    THEN [ok |-> TRUE, graph |-> g, pending |-> b.next_vector_id]
    ELSE IF IsSome(g)
    THEN IF ~builder_get_vector(b, i).ok \/ i = fail_at \/ ~entry_readable(b, g)
         THEN [ok |-> FALSE, graph |-> g, pending |-> next_pending_vector_id]
         ELSE add_pending_loop_no_first(b, i + 1, Some(Append(Unwrap(g), i)), fail_at)
    ELSE add_pending_loop_no_first(b, i + 1, g, fail_at)

RECURSIVE add_pending_loop(_, _, _, _)
add_pending_loop(b, i, g, fail_at) ==
    IF i >= b.next_vector_id
    THEN [ok |-> TRUE, graph |-> g, pending |-> b.next_vector_id]
    ELSE IF IsSome(g)
    THEN IF ~builder_get_vector(b, i).ok \/ i = fail_at \/ ~entry_readable(b, g)
         THEN [ok |-> FALSE, graph |-> g, pending |-> next_pending_vector_id]
         ELSE add_pending_loop(b, i + 1, Some(Append(Unwrap(g), i)), fail_at)
    ELSE add_pending_loop(b, i + 1, Some(<<i>>), fail_at)

add_pending_vectors_to_graph(b, fail_at) ==
    add_pending_loop(b, next_pending_vector_id, graph_builder, fail_at)

\* The writer's state as an operation finds it, and the result it returns:
\* status, the flushed size, for an error the stage that failed, and the
\* object id a graph was uploaded under (none when no upload completed).
Current ==
    [status |-> "Ok", size |-> 0, stage |-> "", graph_upload |-> None,
     graph_builder |-> graph_builder,
     next_pending_vector_id |-> next_pending_vector_id,
     building_vectors |-> building_vectors,
     flushed_vector_files |-> flushed_vector_files,
     flushed_next_vector_id |-> flushed_next_vector_id,
     flushed_graph_file |-> flushed_graph_file,
     vector_cache |-> vector_cache,
     next_object_id |-> next_object_id]

\* The graph part of flush, once the vector store has flushed into state w:
\* when flushed_vector_files is non-empty, encode the graph, allocate an
\* object id, upload, and record the file as flushed_graph_file
\* (flush_graph_always: without the test on flushed_vector_files).
flush_graph_always(w, gio) ==
    IF ~IsSome(w.graph_builder)
    THEN [w EXCEPT !.status = "Panic", !.stage = "no graph builder"]
    ELSE IF gio # "ok"
    THEN [w EXCEPT !.status = "Err", !.stage = "graph_upload"]
    ELSE [w EXCEPT
            !.next_object_id = @ + 1,
            !.graph_upload = Some(w.next_object_id),
            !.flushed_graph_file =
                Some([object_id |-> w.next_object_id,
                      file_size |-> Len(Unwrap(w.graph_builder))])]

\* flush_graph_record_first: the graph file recorded as soon as its object
\* id is allocated, before the upload has completed.
flush_graph_record_first(w, gio) ==
    IF w.flushed_vector_files = <<>> THEN w
    ELSE IF ~IsSome(w.graph_builder)
    THEN [w EXCEPT !.status = "Panic", !.stage = "no graph builder"]
    ELSE IF gio = "alloc_err"
    THEN [w EXCEPT !.status = "Err", !.stage = "graph_alloc"]
    ELSE LET rec == [w EXCEPT
                       !.next_object_id = @ + 1,
                       !.flushed_graph_file =
                           Some([object_id |-> w.next_object_id,
                                 file_size |-> Len(Unwrap(w.graph_builder))])]
         IN  IF gio = "upload_err"
             THEN [rec EXCEPT !.status = "Err", !.stage = "graph_upload"]
             ELSE [rec EXCEPT !.graph_upload = Some(w.next_object_id)]

flush_graph(w, gio) ==
    IF w.flushed_vector_files = <<>> THEN w
    ELSE IF ~IsSome(w.graph_builder)
    THEN [w EXCEPT !.status = "Panic", !.stage = "no graph builder"]
    ELSE IF gio = "alloc_err"
    THEN [w EXCEPT !.status = "Err", !.stage = "graph_alloc"]
    ELSE IF gio = "upload_err"
    THEN [w EXCEPT !.status = "Err", !.stage = "graph_upload",
                   !.next_object_id = @ + 1]
    ELSE [w EXCEPT
            !.next_object_id = @ + 1,
            !.graph_upload = Some(w.next_object_id),
            !.flushed_graph_file =
                Some([object_id |-> w.next_object_id,
                      file_size |-> Len(Unwrap(w.graph_builder))])]

\* HnswFlatIndexWriter::flush.
flush(fail_at, vio, gio) ==
    LET ap == add_pending_vectors_to_graph(building_vectors, fail_at)
    IN  IF ~ap.ok
        THEN [Current EXCEPT !.status = "Err", !.stage = "graph_insert",
                             !.graph_builder = ap.graph]
        ELSE LET vs == vector_store_flush(vio)
                 w == [Current EXCEPT
                         !.graph_builder = ap.graph,
                         !.next_pending_vector_id = ap.pending,
                         !.building_vectors = vs.builder,
                         !.flushed_vector_files = vs.files,
                         !.flushed_next_vector_id = vs.next,
                         !.vector_cache = vs.cache,
                         !.next_object_id = vs.noid,
                         !.size = vs.size]
             IN  IF ~vs.ok
                 THEN [w EXCEPT !.status = "Err", !.stage = "vector_file"]
                 ELSE flush_graph(w, gio)

\* HnswFlatIndexWriter::try_flush.
try_flush(file_full, io, fail_at) ==
    LET tf == builder_try_flush(building_vectors, file_full, io,
                                next_object_id, vector_cache)
        w == [Current EXCEPT
                !.building_vectors = tf.builder,
                !.vector_cache = tf.cache,
                !.next_object_id = tf.noid]
    IN  IF ~tf.ok
        THEN [w EXCEPT !.status = "Err", !.stage = "vector_file"]
        ELSE LET ap == add_pending_vectors_to_graph(tf.builder, fail_at)
             IN  IF ~ap.ok
                 THEN [w EXCEPT !.status = "Err", !.stage = "graph_insert",
                                !.graph_builder = ap.graph]
                 ELSE [w EXCEPT !.graph_builder = ap.graph,
                                !.next_pending_vector_id = ap.pending]

\* The delta seal_current_epoch returns with the flushed files and graph.
seal_delta(files, graph_file) ==
    [next_vector_id |-> building_vectors.next_vector_id,
     added_vector_files |-> files,
     graph_file |-> graph_file]

\* The test for the early return: no file was flushed in this epoch
\* (no_early_return: the test left out, every seal goes on to promote).
no_early_return == FALSE
no_flushed_files == flushed_vector_files = <<>>

\* The first assertion of seal_current_epoch: the file builder holds no data
\* (building_is_empty_always: the assertion compiled out).
building_is_empty_always == TRUE
building_is_empty == builder_is_empty(building_vectors)

\* HnswFlatIndexWriter::seal_current_epoch: the two assertions, the early
\* return, the promotion of the flushed files and the expect on the graph
\* file, which panics after the promotion.
seal_current_epoch ==
    LET w == [status |-> "None", delta |-> None,
              sealed_vector_files |-> sealed_vector_files,
              sealed_next_vector_id |-> sealed_next_vector_id,
              flushed_vector_files |-> flushed_vector_files,
              flushed_graph_file |-> flushed_graph_file]
    IN  IF ~building_is_empty
        THEN [w EXCEPT !.status = "Panic"]
        ELSE IF no_flushed_files
        THEN IF flushed_graph_file # None
             THEN [w EXCEPT !.status = "Panic"]
             ELSE w
        ELSE LET promoted ==
                    [w EXCEPT
                       !.flushed_vector_files = <<>>,
                       !.sealed_next_vector_id = flushed_next_vector_id,
                       !.sealed_vector_files = @ \o flushed_vector_files]
             IN  IF flushed_graph_file = None
                 THEN [promoted EXCEPT !.status = "Panic"]
                 ELSE [promoted EXCEPT
                         !.status = "Some",
                         !.flushed_graph_file = None,
                         !.delta = Some(seal_delta(flushed_vector_files,
                                                   Unwrap(flushed_graph_file)))]

\* ------------------------------------------------------------- the index
\* The payload (vector and info bytes) of the vector that gets id `id`.
vec_of(id) == 10 + id

\* A persisted HnswFlatIndex with n vectors: its vector files (one file of
\* n vectors, or n files of one vector), sorted and contiguous from id 0.
index_vector_files(n, single) ==
    IF n = 0 THEN <<>>
    ELSE IF single
    THEN <<[object_id |-> 1, file_size |-> n + 1,
            start_vector_id |-> 0, vector_count |-> n]>>
    ELSE [i \in 1..n |-> [object_id |-> i, file_size |-> 2,
                          start_vector_id |-> i - 1, vector_count |-> 1]]

index_vector_cache(n, single) ==
    IF n = 0 THEN <<>>
    ELSE IF single
    THEN <<<<[start_vector_id |-> 0, vector_count |-> n,
              vecs |-> [k \in 1..n |-> vec_of(k - 1)]]>>>>
    ELSE [i \in 1..n |-> <<[start_vector_id |-> i - 1, vector_count |-> 1,
                            vecs |-> <<vec_of(i - 1)>>]>>]

\* No call of search_vector is under way.
NoSearch == [ok |-> FALSE, h |-> 0, off |-> 0, err |-> ""]
search_idle ==
    /\ search_holders = <<>>
    /\ search_idx = 0
    /\ search_ret = NoSearch

\* A VectorDistance: an f32 (kind "f32", value v), a cosine distance
\* 1 - dot / sqrt(nn) kept as its terms (kind "cos"), NaN, or no value
\* because the kernel panicked or was not run.
Distance(kind, v, dot, nn) == [kind |-> kind, v |-> v, dot |-> dot, nn |-> nn]
F32(v) == Distance("f32", v, 0, 0)
NaN == Distance("nan", 0, 0, 0)
Panicked == Distance("panic", 0, 0, 0)
NoDistance == Distance("none", 0, 0, 0)

\* No kernel has run.
NoMeasure == [op |-> "none",
              self |-> [m \in {"L1", "L2", "Cosine", "InnerProduct"} |-> NoDistance],
              other |-> [m \in {"L1", "L2", "Cosine", "InnerProduct"} |-> NoDistance],
              simd |-> NoDistance, trivial |-> NoDistance]
distance_idle ==
    /\ dist_target = <<>>
    /\ dist_other = <<>>
    /\ dist_ret = NoMeasure

\* What Cursor::new and Cursor::next return: an error, or for next a
\* CursorRowValue.  A Row keeps the row taken from the cache and the
\* timestamp the row is built with, the two queries keep their timestamp.
CursorRet(op, kind, ts, row) == [op |-> op, kind |-> kind, ts |-> ts, row |-> row]
NoCursorRet == CursorRet("none", "", 0, <<>>)
cursor_idle ==
    /\ values_stream = <<>>
    /\ data_chunk_cache = <<>>
    /\ rw_timestamp = 0
    /\ is_snapshot = FALSE
    /\ cursor_made = FALSE
    /\ cursor_ret = NoCursorRet

\* What handle_fetch_cursor returns: the rows of its response, or an error;
\* and the query it has run on the way, if any: the timestamp queried from,
\* need_check_timestamp, and the first chunk of the response (an empty one
\* when the response has no chunk).
FetchRet(op, status, rows, err) ==
    [op |-> op, status |-> status, rows |-> rows, err |-> err, query |-> None]
Queried(r, rw_ts, need_check_timestamp, res) ==
    [r EXCEPT !.query = Some([rw_timestamp |-> rw_ts,
                              need_check_timestamp |-> need_check_timestamp,
                              first_chunk |-> IF res = <<>> THEN <<>>
                                              ELSE Head(res).rows])]
NoFetchRet == FetchRet("none", "", <<>>, "")
fetch_idle ==
    /\ log_store = <<>>
    /\ now = 0
    /\ cursor_need_drop_time = 0
    /\ cursor_start = 0
    /\ fetched = <<>>
    /\ fetch_ret = NoFetchRet

NoRet == [op |-> "new", status |-> "Ok", size |-> 0, stage |-> "",
          idx |-> 0, val |-> 0, delta |-> None, graph_upload |-> None]

\* HnswFlatIndexWriter::new and HnswVectorStore::new over a persisted index:
\* the graph is loaded when the index has a graph file, which it has
\* exactly when it holds vectors.
Init ==
    \E n \in 0..MaxInit, single \in BOOLEAN :
        LET files == index_vector_files(n, single)
            graph_id == Len(files) + 1
        IN  /\ committed_vector_files = files
            /\ committed_next_vector_id = n
            /\ sealed_vector_files = <<>>
            /\ sealed_next_vector_id = n
            /\ flushed_vector_files = <<>>
            /\ flushed_next_vector_id = n
            /\ building_vectors = new_vector_file_builder(n)
            /\ next_pending_vector_id = n
            /\ graph_builder = IF n = 0 THEN None ELSE Some([k \in 1..n |-> k - 1])
            /\ flushed_graph_file = None
            /\ vector_cache = index_vector_cache(n, single)
            /\ next_object_id = IF n = 0 THEN 1 ELSE graph_id + 1
            /\ ret = NoRet
            /\ panicked = FALSE
            /\ search_idle
            /\ distance_idle
            /\ cursor_idle
            /\ fetch_idle

\* ---------------------------------------------------------------- actions
\* insert(vec, info): add to the building vectors, nothing else
\* (insert_dup: the vector is added twice).
insert_dup(vec, block_full) ==
    builder_add(builder_add(building_vectors, vec, FALSE), vec, block_full)
insert(vec, block_full) == builder_add(building_vectors, vec, block_full)

Insert ==
    /\ ~panicked
    /\ building_vectors.next_vector_id < committed_next_vector_id + MaxInserts
    /\ \E block_full \in BOOLEAN :
        /\ building_vectors' = insert(vec_of(building_vectors.next_vector_id),
                                      block_full)
        /\ ret' = [NoRet EXCEPT !.op = "insert",
                                !.idx = building_vectors.next_vector_id]
    /\ UNCHANGED <<store_tiers, next_pending_vector_id, graph_builder,
                   flushed_graph_file, vector_cache,
                   next_object_id, panicked, other_vars>>

\* The ids a graph insertion may fail at, -1 for no failure.  The first
\* ever node is made by HnswGraphBuilder::first, which reads nothing.
FailPoints ==
    {-1} \cup {i \in next_pending_vector_id .. building_vectors.next_vector_id - 1 :
                 IsSome(graph_builder) \/ i > next_pending_vector_id}

\* The outcomes of a suspension point that is reached (attempted), else "ok".
Outcomes(attempted) == IF attempted THEN IoOutcomes ELSE {"ok"}

\* What an operation's outcome w installs in the writer.
Install(w) ==
    /\ graph_builder' = w.graph_builder
    /\ next_pending_vector_id' = w.next_pending_vector_id
    /\ building_vectors' = w.building_vectors
    /\ flushed_vector_files' = w.flushed_vector_files
    /\ flushed_next_vector_id' = w.flushed_next_vector_id
    /\ flushed_graph_file' = w.flushed_graph_file
    /\ vector_cache' = w.vector_cache
    /\ next_object_id' = w.next_object_id
    /\ panicked' = (w.status = "Panic")
    /\ UNCHANGED <<committed_vector_files, committed_next_vector_id,
                   sealed_vector_files, sealed_next_vector_id, other_vars>>

\* An outcome the bounds admit: object ids up to MaxObjectId, and a failed
\* graph insertion only while the graph has at most MaxNodes nodes.
WithinBounds(w) ==
    /\ w.next_object_id <= MaxObjectId + 1
    /\ w.stage = "graph_insert" => Len(graph_nodes(w.graph_builder)) <= MaxNodes

Flush ==
    /\ ~panicked
    /\ \E fail_at \in FailPoints,
          vio \in Outcomes(~builder_is_empty(building_vectors)) :
       \E gio \in Outcomes(flush(fail_at, vio, "ok").graph_upload # None) :
        LET w == flush(fail_at, vio, gio)
        IN  /\ WithinBounds(w)
            /\ Install(w)
            /\ ret' = [NoRet EXCEPT !.op = "flush", !.status = w.status,
                                    !.stage = w.stage,
                                    !.graph_upload = w.graph_upload,
                                    !.size = IF w.status = "Ok" THEN w.size ELSE 0]

TryFlush ==
    /\ ~panicked
    /\ \E file_full \in {FALSE, building_vectors.blocks # <<>>},
          io \in Outcomes(building_vectors.blocks # <<>>),
          fail_at \in FailPoints :
        LET w == try_flush(file_full, io, fail_at)
        IN  /\ WithinBounds(w)
            /\ Install(w)
            /\ ret' = [NoRet EXCEPT !.op = "try_flush", !.status = w.status,
                                    !.stage = w.stage]

SealCurrentEpoch ==
    /\ ~panicked
    /\ LET w == seal_current_epoch
       IN  /\ sealed_vector_files' = w.sealed_vector_files
           /\ sealed_next_vector_id' = w.sealed_next_vector_id
           /\ flushed_vector_files' = w.flushed_vector_files
           /\ flushed_graph_file' = w.flushed_graph_file
           /\ panicked' = (w.status = "Panic")
           /\ ret' = [NoRet EXCEPT !.op = "seal_current_epoch",
                                   !.status = w.status, !.delta = w.delta]
    /\ UNCHANGED <<committed_vector_files, committed_next_vector_id,
                   flushed_next_vector_id, building_vectors,
                   next_pending_vector_id, graph_builder,
                   vector_cache, next_object_id, other_vars>>

\* A read through the writer's vector store (&self: it changes nothing).
GetVector ==
    /\ ~panicked
    /\ \E idx \in 0..(building_vectors.next_vector_id + 1) :
        LET r == get_vector(idx)
        IN  ret' = [NoRet EXCEPT !.op = "get_vector",
                                 !.status = IF r.ok THEN "Ok" ELSE "Err",
                                 !.stage = r.err, !.idx = idx, !.val = r.val]
    /\ UNCHANGED <<store_tiers, building_vectors, next_pending_vector_id,
                   graph_builder, flushed_graph_file, vector_cache,
                   next_object_id, panicked, other_vars>>

Next == Insert \/ Flush \/ TryFlush \/ SealCurrentEpoch \/ GetVector

Spec == Init /\ [][Next]_vars

\* A writer no operation is applied to (new, over an empty index).
writer_idle ==
    /\ committed_vector_files = <<>> /\ committed_next_vector_id = 0
    /\ sealed_vector_files = <<>> /\ sealed_next_vector_id = 0
    /\ flushed_vector_files = <<>> /\ flushed_next_vector_id = 0
    /\ building_vectors = new_vector_file_builder(0)
    /\ next_pending_vector_id = 0
    /\ graph_builder = None
    /\ flushed_graph_file = None
    /\ vector_cache = <<>>
    /\ next_object_id = 1
    /\ ret = NoRet
    /\ panicked = FALSE

writer_vars == <<store_tiers, building_vectors, next_pending_vector_id,
                 graph_builder, flushed_graph_file, vector_cache,
                 next_object_id, ret, panicked>>

\* ------------------------------------------------- search_vector by itself
\* Holder lists: at most MaxHolders holders of 1..MaxCount vectors each,
\* the first starting at an id up to MaxStart.
MaxHolders == 3
MaxCount == 2
MaxStart == 2

\* The sorted, contiguous holder list with these vector counts from start.
contiguous_holders(start, counts) ==
    [i \in 1..Len(counts) |->
        [start_vector_id |->
            start + SumCounts([k \in 1..(i - 1) |-> [vector_count |-> counts[k]]]),
         vector_count |-> counts[i]]]

SearchInit ==
    /\ \E n \in 0..MaxHolders :
       \E start \in (IF n = 0 THEN {0} ELSE 0..MaxStart),
          counts \in [1..n -> 1..MaxCount] :
         search_holders = contiguous_holders(start, counts)
    /\ search_idx = 0
    /\ search_ret = NoSearch
    /\ writer_idle
    /\ distance_idle
    /\ cursor_idle
    /\ fetch_idle

\* One call search_vector(search_holders, idx).
SearchVector ==
    /\ \E idx \in 0..(MaxStart + MaxHolders * MaxCount + 1) :
        /\ search_idx' = idx
        /\ search_ret' = search_vector(search_holders, idx)
    /\ UNCHANGED <<search_holders, writer_vars, distance_vars, cursor_vars,
                   fetch_vars>>

SearchNext == SearchVector

SearchSpec == SearchInit /\ [][SearchNext]_vars

\* ------------------------------------------------------ distance kernels
\* VectorItem and VectorDistance are f32.  The vectors measured here have
\* integer components, so that every product, difference and sum is an
\* integer too, and f32 arithmetic on them is integer arithmetic followed
\* by rounding to the nearest f32 (24 significant bits, ties to even).
abs(x) == IF x < 0 THEN -x ELSE x

\* The spacing of the f32 values around magnitude m: 1 up to 2^24, then
\* doubling with every binade.
RECURSIVE f32_spacing(_, _)
f32_spacing(m, q) == IF m <= 16777216 * q THEN q ELSE f32_spacing(m, 2 * q)

\* The integer x rounded to the nearest f32.
f32(x) ==
    LET m == abs(x)
        q == f32_spacing(m, 1)
        lo == (m \div q) * q
        r == IF 2 * (m - lo) < q THEN lo
             ELSE IF 2 * (m - lo) > q THEN lo + q
             ELSE IF (lo \div q) % 2 = 0 THEN lo ELSE lo + q
    IN  IF x < 0 THEN -r ELSE r

\* Iterator::sum::<f32>: the terms from the i-th on added to acc one by one
\* (the test on acc has the accumulator evaluated at every step, as the
\* loop does, instead of as one nested expression at the end).
RECURSIVE f32_sum(_, _, _)
f32_sum(terms, i, acc) ==
    IF acc \in Int /\ i > Len(terms) THEN acc
    ELSE f32_sum(terms, i + 1, f32(acc + terms[i]))

\* first.0[i] * second.0[i] for i in lo..hi (0-based, hi exclusive).
products(first, second, lo, hi) ==
    [k \in 1..(hi - lo) |-> f32(first[lo + k] * second[lo + k])]

\* L1DistanceMeasure(target).measure(other).
l1_signed(target, other) ==
    IF Len(target) # Len(other) THEN Panicked
    ELSE F32(f32_sum([i \in 1..Len(target) |-> f32(target[i] - other[i])], 1, 0))
l1_measure(target, other) ==
    IF Len(target) # Len(other) THEN Panicked
    ELSE F32(f32_sum([i \in 1..Len(target) |->
                        abs(f32(target[i] - other[i]))], 1, 0))

\* L2DistanceMeasure(target).measure(other): the squares, no square root.
l2_measure(target, other) ==
    IF Len(target) # Len(other) THEN Panicked
    ELSE F32(f32_sum([i \in 1..Len(target) |->
                        f32(f32(target[i] - other[i]) * f32(target[i] - other[i]))],
                     1, 0))

\* VectorInner::magnitude squared: the sum of the squares.
magnitude2(v) == f32_sum(products(v, v, 0, Len(v)), 1, 0)

\* CosineDistanceMeasure { target, magnitude }.measure(other):
\* 1 - sum(target[i] * other[i] / (|other| * |target|)), in exact arithmetic
\* as 1 - dot / sqrt(|target|^2 * |other|^2); a zero magnitude makes every
\* term 0/0.
cosine_measure(target, other) ==
    IF Len(target) # Len(other) THEN Panicked
    ELSE LET nn == magnitude2(target) * magnitude2(other)
         IN  IF nn = 0 THEN NaN
             ELSE Distance("cos", 0,
                           f32_sum(products(target, other, 0, Len(target)), 1, 0),
                           nn)

\* inner_product_trivial.
inner_product_trivial(first, second) ==
    IF Len(first) # Len(second) THEN Panicked
    ELSE F32(-f32_sum(products(first, second, 0, Len(first)), 1, 0))

\* Simd::<VectorItem, 32>: the lanes of one chunk.
Lanes == 32

\* The while loop of inner_product_simd: whole chunks of Lanes products,
\* each reduced by reduce_sum and added to sum; it ends with the sum and
\* the start of the tail.
RECURSIVE simd_chunks(_, _, _, _)
simd_chunks(first, second, sum, start) ==
    IF start + Lanes <= Len(first)
    THEN simd_chunks(first, second,
                     f32(sum + f32_sum(products(first, second, start, start + Lanes),
                                       1, 0)),
                     start + Lanes)
    ELSE [sum |-> sum, start |-> start]

\* inner_product_simd (inner_product_simd_no_tail: the scalar tail left out).
inner_product_simd_no_tail(first, second) ==
    IF Len(first) # Len(second) THEN Panicked
    ELSE F32(-simd_chunks(first, second, 0, 0).sum)
inner_product_simd(first, second) ==
    IF Len(first) # Len(second) THEN Panicked
    ELSE LET l == simd_chunks(first, second, 0, 0)
         IN  F32(-f32(f32_sum(products(first, second, l.start, Len(first)), 1, 0)
                      + l.sum))

\* inner_product_faiss: the negated fvec_inner_product of the faiss library.
inner_product_faiss(first, second) ==
    F32(-f32_sum(products(first, second, 0, Len(first)), 1, 0))

\* DistanceMeasurement and dispatch_measurement: M::new(target).measure(other).
Measurements == {"L1", "L2", "Cosine", "InnerProduct"}
measure(m, target, other) ==
    CASE m = "L1" -> l1_measure(target, other)
      [] m = "L2" -> l2_measure(target, other)
      [] m = "Cosine" -> cosine_measure(target, other)
      [] m = "InnerProduct" -> inner_product_faiss(target, other)

\* The vectors measured: every vector of 1..MaxDim components out of Items,
\* and long ones of 1..MaxChunks chunks and a tail of 0..MaxTail, whose
\* first component is head, whose first chunk is filled with fill and
\* whose other components are 1 (4096 * 4096 = 2^24: the next 1 added is
\* lost to rounding).
MaxDim == 2
MaxChunks == 4
MaxTail == 2
Items == {-1, 0, 1, 2}

short_vectors == UNION {[1..n -> Items] : n \in 1..MaxDim}
long_vector(n, head, fill) ==
    [i \in 1..n |-> IF i = 1 THEN head ELSE IF i <= Lanes THEN fill ELSE 1]
long_vectors ==
    {long_vector(k * Lanes + t, head, fill) :
        k \in 1..MaxChunks, t \in 0..MaxTail, head \in {1, 4096}, fill \in {0, 1}}

DistanceInit ==
    /\ dist_target \in short_vectors \cup long_vectors
    /\ dist_other \in short_vectors \cup long_vectors
    /\ dist_ret = NoMeasure
    /\ writer_idle
    /\ search_idle
    /\ cursor_idle
    /\ fetch_idle

\* Each of the four measures built for the target and applied to the
\* target itself and to the other vector, which has the index's dimension.
MeasureDistance ==
    /\ Len(dist_target) = Len(dist_other)
    /\ Len(dist_target) <= MaxDim
    /\ dist_ret' = [NoMeasure EXCEPT
                      !.op = "measure",
                      !.self = [m \in Measurements |->
                                   measure(m, dist_target, dist_target)],
                      !.other = [m \in Measurements |->
                                    measure(m, dist_target, dist_other)]]
    /\ UNCHANGED <<dist_target, dist_other, writer_vars, search_vars,
                   cursor_vars, fetch_vars>>

\* The two inner product kernels on the same pair of vectors.
InnerProductKernels ==
    /\ dist_ret' = [NoMeasure EXCEPT
                      !.op = "inner_product",
                      !.simd = inner_product_simd(dist_target, dist_other),
                      !.trivial = inner_product_trivial(dist_target, dist_other)]
    /\ UNCHANGED <<dist_target, dist_other, writer_vars, search_vars,
                   cursor_vars, fetch_vars>>

DistanceNext == MeasureDistance \/ InnerProductKernels

DistanceSpec == DistanceInit /\ [][DistanceNext]_vars

\* ---------------------------------------------------------------- Cursor
\* The values stream of a response yields chunks, each a list of rows or an
\* error.  A row is the list of its columns; a row of the log store has its
\* timestamp in column 0, a row of a table (snapshot) has none.  A column is
\* kept as the number its text parses to.
MaxStream == 3
MaxRows == 2
Timestamps == {1, 2}

OkChunk(rows) == [ok |-> TRUE, rows |-> rows]
ErrChunk == [ok |-> FALSE, rows |-> <<>>]

\* The streams of at most MaxStream chunks of at most MaxRows rows: every
\* row has a timestamp of Timestamps (unless snapshot) and a payload
\* column that tells it from every other row of the stream.
stream_shapes ==
    LET chunks == {ErrChunk} \cup
                  {OkChunk(r) : r \in UNION {[1..n -> Timestamps] : n \in 0..MaxRows}}
    IN  UNION {[1..n -> chunks] : n \in 0..MaxStream}
stream_of(shape, snapshot) ==
    [i \in 1..Len(shape) |->
        [ok |-> shape[i].ok,
         rows |-> [j \in 1..Len(shape[i].rows) |->
                     IF snapshot THEN <<10 * i + j>>
                     ELSE <<shape[i].rows[j], 10 * i + j>>]]]

CursorInit ==
    /\ is_snapshot \in BOOLEAN
    /\ \E shape \in stream_shapes : values_stream = stream_of(shape, is_snapshot)
    /\ data_chunk_cache = <<>>
    /\ rw_timestamp = 0
    /\ cursor_made = FALSE
    /\ cursor_ret = NoCursorRet
    /\ writer_idle
    /\ search_idle
    /\ distance_idle
    /\ fetch_idle

\* A Cursor: what is left of its values stream, and its fields.
CursorOf(stream, cache, ts, snapshot) ==
    [values_stream |-> stream, data_chunk_cache |-> cache,
     rw_timestamp |-> ts, is_snapshot |-> snapshot]

\* Cursor::new(response, start_timestamp, is_snapshot, need_check_timestamp):
\* a snapshot cursor starts at start_timestamp with an empty cache; any
\* other takes the first chunk of the stream (none: an empty one) for its
\* cache and the timestamp of its first row for rw_timestamp, and with
\* need_check_timestamp fails unless that row exists and carries
\* start_timestamp.  An error leaves no cursor, but has taken the chunk.
\* cursor_new_unchecked: without the check of need_check_timestamp.
cursor_new_unchecked(stream, start_timestamp, snapshot, need_check_timestamp) ==
    IF snapshot
    THEN [ok |-> TRUE, err |-> "",
          cursor |-> CursorOf(stream, <<>>, start_timestamp, TRUE)]
    ELSE LET first == IF stream = <<>> THEN OkChunk(<<>>) ELSE Head(stream)
             rest == IF stream = <<>> THEN <<>> ELSE Tail(stream)
             query_timestamp == IF first.rows # <<>> THEN first.rows[1][1]
                                ELSE start_timestamp
         IN  IF ~first.ok
             THEN [ok |-> FALSE, err |-> "Cursor get next chunk error",
                   cursor |-> CursorOf(rest, <<>>, 0, FALSE)]
             ELSE [ok |-> TRUE, err |-> "",
                   cursor |-> CursorOf(rest, first.rows, query_timestamp, FALSE)]
cursor_new(stream, start_timestamp, snapshot, need_check_timestamp) ==
    IF snapshot
    THEN [ok |-> TRUE, err |-> "",
          cursor |-> CursorOf(stream, <<>>, start_timestamp, TRUE)]
    ELSE LET first == IF stream = <<>> THEN OkChunk(<<>>) ELSE Head(stream)
             rest == IF stream = <<>> THEN <<>> ELSE Tail(stream)
             query_timestamp == IF first.rows # <<>> THEN first.rows[1][1]
                                ELSE start_timestamp
         IN  IF ~first.ok
             THEN [ok |-> FALSE, err |-> "Cursor get next chunk error",
                   cursor |-> CursorOf(rest, <<>>, 0, FALSE)]
             ELSE IF need_check_timestamp /\
                     (first.rows = <<>> \/ query_timestamp # start_timestamp)
             THEN [ok |-> FALSE, err |-> "data may have been recycled",
                   cursor |-> CursorOf(rest, <<>>, 0, FALSE)]
             ELSE [ok |-> TRUE, err |-> "",
                   cursor |-> CursorOf(rest, first.rows, query_timestamp, FALSE)]

\* The cursor the cursor variables hold.
Self == CursorOf(values_stream, data_chunk_cache, rw_timestamp, is_snapshot)

\* The cursor variables take the fields of cursor c.
InstallCursor(c) ==
    /\ values_stream' = c.values_stream
    /\ data_chunk_cache' = c.data_chunk_cache
    /\ rw_timestamp' = c.rw_timestamp
    /\ is_snapshot' = c.is_snapshot

CursorNew ==
    /\ ~cursor_made /\ cursor_ret.op = "none"
    /\ \E start_timestamp \in Timestamps, need_check_timestamp \in BOOLEAN :
        LET made == cursor_new(values_stream, start_timestamp, is_snapshot,
                               need_check_timestamp)
        IN  /\ cursor_made' = made.ok
            /\ cursor_ret' = CursorRet("new", IF made.ok THEN "Ok" ELSE "Err", 0, <<>>)
            /\ InstallCursor([made.cursor EXCEPT !.is_snapshot = is_snapshot])
    /\ UNCHANGED <<writer_vars, search_vars, distance_vars, fetch_vars>>

\* What a call of Cursor::next leaves: its result and the cursor.
NextOut(r, c) == [ret |-> r, cursor |-> c]

\* Step 2 of the loop over a cache that is not empty: the front row is
\* taken; a snapshot row is returned as it is, a log store row is returned
\* when its timestamp is rw_timestamp and makes the call ask for a query at
\* its timestamp when not.
\* take_row_any_timestamp: without the comparison of timestamps.
take_row_any_timestamp(c) ==
    LET new_row == Head(c.data_chunk_cache)
        popped == [c EXCEPT !.data_chunk_cache = Tail(@)]
    IN  IF c.is_snapshot
        THEN NextOut(CursorRet("next", "Row", c.rw_timestamp, new_row), popped)
        ELSE NextOut(CursorRet("next", "Row", new_row[1], new_row), popped)
take_row(c) ==
    LET new_row == Head(c.data_chunk_cache)
        timestamp_row == new_row[1]
        popped == [c EXCEPT !.data_chunk_cache = Tail(@)]
    IN  IF c.is_snapshot
        THEN NextOut(CursorRet("next", "Row", c.rw_timestamp, new_row), popped)
        ELSE IF timestamp_row # c.rw_timestamp
        THEN NextOut(CursorRet("next", "QueryWithNextRwTimestamp",
                               timestamp_row, <<>>), popped)
        ELSE NextOut(CursorRet("next", "Row", timestamp_row, new_row), popped)

\* The loop of Cursor::next: with an empty cache the next chunk of the
\* stream becomes the cache (an error chunk is returned as the error and
\* leaves the cache, an exhausted stream asks for a query from
\* rw_timestamp), and an empty chunk sends the loop round again.
RECURSIVE cursor_next(_)
cursor_next(c) ==
    IF c.data_chunk_cache # <<>> THEN take_row(c)
    ELSE IF c.values_stream = <<>>
    THEN NextOut(CursorRet("next", "QueryWithStartRwTimestamp", c.rw_timestamp, <<>>), c)
    ELSE IF ~Head(c.values_stream).ok
    THEN NextOut(CursorRet("next", "Err", 0, <<>>),
                 [c EXCEPT !.values_stream = Tail(@)])
    ELSE cursor_next([c EXCEPT !.values_stream = Tail(@),
                               !.data_chunk_cache = Head(c.values_stream).rows])

CursorNextCall ==
    /\ cursor_made
    /\ LET out == cursor_next(Self)
       IN  /\ cursor_ret' = out.ret
           /\ InstallCursor(out.cursor)
    /\ UNCHANGED <<cursor_made, writer_vars, search_vars, distance_vars,
                   fetch_vars>>

CursorNext == CursorNew \/ CursorNextCall

CursorSpec == CursorInit /\ [][CursorNext]_vars

\* ------------------------------------------ CursorManager and FETCH
\* A session with one subscription and one cursor name.  The log store is
\* the list of its rows in ascending order of timestamp; a row is
\* <<timestamp, payload>>, the payload its position among the rows of its
\* timestamp.
MaxTs == 3
MaxLog == 3
MaxTime == 2

\* The retention of the subscription, in ticks of the clock.
Retention == 1

\* The result of the query gen_query_from_logstore_ge_rw_timestamp builds:
\* the rows whose timestamp is at least rw_ts, in ascending order.
RECURSIVE query_ge(_, _)
query_ge(store, rw_ts) ==
    IF store = <<>> THEN <<>>
    ELSE IF Head(store)[1] >= rw_ts THEN <<Head(store)>> \o query_ge(Tail(store), rw_ts)
    ELSE query_ge(Tail(store), rw_ts)

\* The values stream of a response with these rows: chunks of at most size
\* rows, after an empty chunk when lead.
RECURSIVE chunks_of(_, _)
chunks_of(rows, size) ==
    IF Len(rows) <= size
    THEN IF rows = <<>> THEN <<>> ELSE <<OkChunk(rows)>>
    ELSE <<OkChunk(SubSeq(rows, 1, size))>> \o
         chunks_of(SubSeq(rows, size + 1, Len(rows)), size)
response(rows, lead, size) ==
    (IF lead THEN <<OkChunk(<<>>)>> ELSE <<>>) \o chunks_of(rows, size)

\* The cursor manager: whether cursor_map holds the name, the cursor it
\* holds, and the time the cursor is dropped at.
ManagerOf(present, cursor, drop_time) ==
    [present |-> present, cursor |-> cursor, drop_time |-> drop_time]
NoCursor == CursorOf(<<>>, <<>>, 0, FALSE)
Manager == ManagerOf(cursor_made, Self, cursor_need_drop_time)

\* add_cursor and update_cursor: the cursor goes into the map under its
\* name, with the drop time now + retention of its subscription.
add_cursor(m, cursor, time) == ManagerOf(TRUE, cursor, time + Retention)
update_cursor(m, cursor, time) == ManagerOf(TRUE, cursor, time + Retention)
remove_cursor(m) == ManagerOf(FALSE, NoCursor, 0)

\* get_row_with_cursor: no cursor of that name is ItemNotFound; a cursor
\* past its drop time is removed and reported; any other is asked for its
\* next result.
\* get_row_keep_expired: the cursor past its drop time left in the map.
get_row_keep_expired(m, time) ==
    IF ~m.present
    THEN [ret |-> CursorRet("next", "ItemNotFound", 0, <<>>), manager |-> m]
    ELSE IF time > m.drop_time
    THEN [ret |-> CursorRet("next", "Expired", 0, <<>>), manager |-> m]
    ELSE LET out == cursor_next(m.cursor)
         IN  [ret |-> out.ret, manager |-> [m EXCEPT !.cursor = out.cursor]]
get_row_with_cursor(m, time) ==
    IF ~m.present
    THEN [ret |-> CursorRet("next", "ItemNotFound", 0, <<>>), manager |-> m]
    ELSE IF time > m.drop_time
    THEN [ret |-> CursorRet("next", "Expired", 0, <<>>),
          manager |-> remove_cursor(m)]
    ELSE LET out == cursor_next(m.cursor)
         IN  [ret |-> out.ret, manager |-> [m EXCEPT !.cursor = out.cursor]]

\* What handle_fetch_cursor leaves: its result, the last result of
\* get_row_with_cursor, and the manager.
FetchOut(r, g, m) == [ret |-> r, got |-> g, manager |-> m]
FetchErr(err) == FetchRet("fetch", "Err", <<>>, err)

\* The second half of handle_fetch_cursor, after get_row_with_cursor has
\* left manager m and asked for a query: the log store is queried from
\* rw_ts, the cursor made of the response (checked by Cursor::new when
\* need_check_timestamp) replaces the old one, and the new cursor is asked
\* once: a Row is the response, QueryWithStartRwTimestamp an empty
\* response, QueryWithNextRwTimestamp an error.  The response of the query
\* comes in chunks of size rows, after an empty chunk when lead.
query_and_update(m, asked, store, time, lead, size, rw_ts, need_check_timestamp) ==
    LET res == response(query_ge(store, rw_ts), lead, size)
        made == cursor_new(res, rw_ts, FALSE, need_check_timestamp)
        second == get_row_with_cursor(update_cursor(m, made.cursor, time), time)
        result == IF second.ret.kind = "Row"
                  THEN FetchRet("fetch", "Ok", <<second.ret.row>>, "")
                  ELSE IF second.ret.kind = "QueryWithStartRwTimestamp"
                  THEN FetchRet("fetch", "Ok", <<>>, "")
                  ELSE IF second.ret.kind = "QueryWithNextRwTimestamp"
                  THEN FetchErr("one must get a row or null")
                  ELSE FetchErr(second.ret.kind)
    IN  IF ~made.ok
        THEN FetchOut(Queried(FetchErr(made.err), rw_ts, need_check_timestamp, res),
                      asked, m)
        ELSE FetchOut(Queried(result, rw_ts, need_check_timestamp, res),
                      second.ret, second.manager)

\* handle_fetch_cursor: an error of get_row_with_cursor is the error of the
\* fetch and a Row is its response; QueryWithNextRwTimestamp(t) makes it
\* query from t, the new cursor to check that timestamp, and
\* QueryWithStartRwTimestamp(t) from t + 1, unchecked.
handle_fetch_cursor(m, store, time, lead, size) ==
    LET first == get_row_with_cursor(m, time)
    IN  IF first.ret.kind \in {"ItemNotFound", "Expired", "Err"}
        THEN FetchOut(FetchErr(first.ret.kind), first.ret, first.manager)
        ELSE IF first.ret.kind = "Row"
        THEN FetchOut(FetchRet("fetch", "Ok", <<first.ret.row>>, ""),
                      first.ret, first.manager)
        ELSE IF first.ret.kind = "QueryWithNextRwTimestamp"
        THEN query_and_update(first.manager, first.ret, store, time, lead, size,
                              first.ret.ts, TRUE)
        ELSE query_and_update(first.manager, first.ret, store, time, lead, size,
                              first.ret.ts + 1, FALSE)

\* The cursor variables take the state of manager m.
InstallManager(m) ==
    /\ cursor_made' = m.present
    /\ cursor_need_drop_time' = m.drop_time
    /\ InstallCursor(m.cursor)

FetchInit ==
    /\ log_store = <<>>
    /\ now = 0
    /\ cursor_need_drop_time = 0
    /\ cursor_start = 0
    /\ fetched = <<>>
    /\ fetch_ret = NoFetchRet
    /\ cursor_idle
    /\ writer_idle
    /\ search_idle
    /\ distance_idle

\* The clock moves on.
Tick ==
    /\ now < MaxTime
    /\ now' = now + 1
    /\ UNCHANGED <<log_store, cursor_need_drop_time, cursor_start, fetched,
                   fetch_ret, cursor_vars, writer_vars, search_vars,
                   distance_vars>>

\* The rows of an epoch are appended to the log store, with a timestamp
\* greater than every timestamp in it.
AppendRows ==
    /\ \E ts \in 1..MaxTs, n \in 1..2 :
        /\ Len(log_store) + n <= MaxLog
        /\ log_store # <<>> => ts > log_store[Len(log_store)][1]
        /\ log_store' = log_store \o [k \in 1..n |-> <<ts, k>>]
    /\ UNCHANGED <<now, cursor_need_drop_time, cursor_start, fetched,
                   fetch_ret, cursor_vars, writer_vars, search_vars,
                   distance_vars>>

\* The rows of the oldest timestamp are recycled.
Recycle ==
    /\ log_store # <<>>
    /\ log_store' = query_ge(log_store, log_store[1][1] + 1)
    /\ UNCHANGED <<now, cursor_need_drop_time, cursor_start, fetched,
                   fetch_ret, cursor_vars, writer_vars, search_vars,
                   distance_vars>>

\* A cursor on the subscription is declared from start_timestamp: the
\* cursor made of the query from start_timestamp is added to the manager.
DeclareCursor ==
    /\ ~cursor_made
    /\ \E start_timestamp \in Timestamps, lead \in BOOLEAN, size \in 1..MaxRows :
        LET made == cursor_new(
                        response(query_ge(log_store, start_timestamp), lead, size),
                        start_timestamp, FALSE, FALSE)
        IN  /\ InstallManager(add_cursor(Manager, made.cursor, now))
            /\ cursor_start' = start_timestamp
    /\ fetched' = <<>>
    /\ cursor_ret' = NoCursorRet
    /\ fetch_ret' = FetchRet("declare", "Ok", <<>>, "")
    /\ UNCHANGED <<log_store, now, writer_vars, search_vars, distance_vars>>

\* The cursor is closed.
RemoveCursor ==
    /\ cursor_made
    /\ InstallManager(remove_cursor(Manager))
    /\ cursor_ret' = NoCursorRet
    /\ fetch_ret' = FetchRet("close", "Ok", <<>>, "")
    /\ UNCHANGED <<log_store, now, cursor_start, fetched,
                   writer_vars, search_vars, distance_vars>>

\* FETCH NEXT FROM the cursor name.
FetchCursor ==
    /\ \E lead \in BOOLEAN, size \in 1..MaxRows :
        LET out == handle_fetch_cursor(Manager, log_store, now, lead, size)
        IN  /\ out.manager.cursor.rw_timestamp <= MaxTs + 1
            /\ InstallManager(out.manager)
            /\ cursor_ret' = out.got
            /\ fetch_ret' = out.ret
            /\ fetched' = fetched \o out.ret.rows
    /\ UNCHANGED <<log_store, now, cursor_start,
                   writer_vars, search_vars, distance_vars>>

FetchNext ==
    Tick \/ AppendRows \/ Recycle \/ DeclareCursor \/ RemoveCursor \/ FetchCursor

FetchSpec == FetchInit /\ [][FetchNext]_vars

\* The same session over a log store nothing is recycled from.
AppendOnlyNext == Tick \/ AppendRows \/ DeclareCursor \/ RemoveCursor \/ FetchCursor

AppendOnlySpec == FetchInit /\ [][AppendOnlyNext]_vars

\* ================================================================ claims
\* The step just taken was operation op (every operation records itself
\* in ret).
Did(op) == ret'.op = op

\* ------------------------------------------------------------------- C1
\* C1: at every point between writer operations (failed flushes included)
\* committed_next <= sealed_next <= flushed_next <= building_next.
C1_BoundaryMonotone ==
    /\ committed_next_vector_id <= sealed_next_vector_id
    /\ sealed_next_vector_id <= flushed_next_vector_id
    /\ flushed_next_vector_id <= building_next

\* A failed flush with a sealed tier behind it and buffered vectors ahead.
C1_Witness ==
    /\ ret.op = "flush" /\ ret.status = "Err"
    /\ committed_next_vector_id < sealed_next_vector_id
    /\ flushed_next_vector_id < building_next

\* ------------------------------------------------------------------- C2
\* C2: after N inserts every id in [initial_next, initial_next + N)
\* resolves through get_vector, whatever try_flush, flush and
\* seal_current_epoch calls were interleaved (block and file rollover in
\* try_flush included).  The committed boundary never moves, so
\* initial_next is committed_next_vector_id.
C2_IdDensity ==
    \A id \in committed_next_vector_id .. building_next - 1 : get_vector(id).ok

\* ------------------------------------------------------------------- C3
\* C3: get_vector(id) is an error for every id >= building_next, and a
\* read (failed or not) leaves boundaries, file lists, builder, graph and
\* store as they were.
C3_OutOfRangeRead ==
    [][ /\ \A id \in building_next .. building_next + 2 : ~get_vector(id).ok
        /\ Did("get_vector") =>
             /\ ret'.idx >= building_next => ret'.status = "Err"
             /\ UNCHANGED <<store_tiers, building_vectors,
                            next_pending_vector_id, graph_builder,
                            flushed_graph_file, vector_cache, next_object_id>>
      ]_vars

\* The read of id building_next failed, with vectors in the flushed and in
\* the building tier.
C3_Witness ==
    /\ ret.op = "get_vector" /\ ret.status = "Err" /\ ret.idx = building_next
    /\ sealed_next_vector_id < flushed_next_vector_id
    /\ flushed_next_vector_id < building_next

\* ------------------------------------------------------------------- C4
\* C4: ids are assigned densely in insertion order and never reassigned:
\* an insert gets the id building_next had (initial_next + k for the k-th),
\* and at every later point get_vector of an assigned id returns the
\* payload of that insert, whichever tier holds the id.
C4_StableIds ==
    /\ ret.op = "insert" => ret.idx = building_next - 1
    /\ \A id \in committed_next_vector_id .. building_next - 1 :
          get_vector(id) = Ok(vec_of(id))

\* ------------------------------------------------------------------- C5
\* C5: insert changes the building tier only: building_next grows by
\* exactly 1; boundaries, file lists, graph_builder, next_pending,
\* flushed_graph_file and the stores are unchanged.
C5_InsertFrame ==
    [][ Did("insert") =>
          /\ building_vectors'.next_vector_id = building_next + 1
          /\ UNCHANGED <<store_tiers, graph_builder, next_pending_vector_id,
                         flushed_graph_file, vector_cache, next_object_id>>
      ]_vars

\* An insert into a writer that holds flushed files and a flushed graph.
C5_Witness ==
    /\ ret.op = "insert"
    /\ flushed_vector_files # <<>>
    /\ IsSome(flushed_graph_file)
    /\ IsSome(graph_builder)

\* ------------------------------------------------------------------- C6
\* C6: after every successful try_flush or flush, next_pending equals
\* building_next and every id has been added to the graph exactly once, in
\* increasing id order, so that graph node k is vector id k.
C6_GraphCatchesUp ==
    (ret.op \in {"flush", "try_flush"} /\ ret.status = "Ok") =>
        /\ next_pending_vector_id = building_next
        /\ graph_nodes(graph_builder) = [k \in 1..building_next |-> k - 1]

\* ------------------------------------------------------------------- C7
\* C7: a flush whose vector-store flush has completed goes on to the graph
\* (serialize, allocate, upload, record) exactly when flushed_vector_files
\* is then non-empty, and when it returns Ok it has uploaded the graph in
\* exactly that case; an uploaded graph goes under an object id not handed
\* out before and is recorded as flushed_graph_file, and no flush records
\* a graph file otherwise; flush on a new writer returns 0 and writes
\* nothing.
C7_GraphFileIffFlushed ==
    [][ Did("flush") =>
          /\ ret'.stage \notin {"graph_insert", "vector_file"} =>
                ((\/ IsSome(ret'.graph_upload)
                  \/ ret'.stage \in {"graph_alloc", "graph_upload"}
                  \/ ret'.status = "Panic")
                 <=> flushed_vector_files' # <<>>)
          /\ ret'.status = "Ok" =>
                (IsSome(ret'.graph_upload) <=> flushed_vector_files' # <<>>)
          /\ IsSome(ret'.graph_upload) =>
                /\ flushed_vector_files' # <<>>
                /\ Unwrap(ret'.graph_upload) >= next_object_id
                /\ Unwrap(ret'.graph_upload) < next_object_id'
                /\ Unwrap(ret'.graph_upload) \notin DOMAIN vector_cache'
                /\ IsSome(flushed_graph_file')
                /\ Unwrap(flushed_graph_file').object_id = Unwrap(ret'.graph_upload)
          /\ ~IsSome(ret'.graph_upload) =>
                flushed_graph_file' = flushed_graph_file
          /\ ret.op = "new" =>
                /\ ret'.status = "Ok" /\ ret'.size = 0
                /\ UNCHANGED <<next_object_id, vector_cache, flushed_graph_file,
                               flushed_vector_files>>
      ]_vars

\* A flush that flushed a vector file and uploaded the graph.
C7_Witness ==
    /\ ret.op = "flush" /\ ret.status = "Ok" /\ ret.size > 0
    /\ IsSome(ret.graph_upload)
    /\ flushed_vector_files # <<>>

\* ------------------------------------------------------------------- C8
\* C8: at every point between writer operations flushed_graph_file is
\* present if and only if flushed_vector_files is non-empty, also after
\* flushes that returned an error.
C8_GraphFilePresentIffFlushedData ==
    IsSome(flushed_graph_file) <=> flushed_vector_files # <<>>

\* ------------------------------------------------------------------- C9
\* C9 as stated: seal_current_epoch with no file flushed in the current
\* epoch returns none and leaves the whole writer state unchanged.
C9_EmptySealIsNoOp ==
    [][ (Did("seal_current_epoch") /\ flushed_vector_files = <<>>) =>
          /\ ret'.status = "None" /\ ret'.delta = None
          /\ UNCHANGED <<store_tiers, building_vectors, next_pending_vector_id,
                         graph_builder, flushed_graph_file, vector_cache,
                         next_object_id, panicked>>
      ]_vars

\* C9 amended: seal_current_epoch with no file flushed in the current epoch
\* and an empty building tier returns none and leaves the whole writer
\* state unchanged (so it does on a new writer, and directly after a seal
\* that returned a delta).
C9_EmptySealIsNoOpWhenBuilt ==
    [][ (/\ Did("seal_current_epoch")
         /\ flushed_vector_files = <<>>
         /\ \/ builder_is_empty(building_vectors)
            \/ ret.op = "new"
            \/ ret.op = "seal_current_epoch" /\ ret.status = "Some") =>
          /\ ret'.status = "None" /\ ret'.delta = None
          /\ UNCHANGED <<store_tiers, building_vectors, next_pending_vector_id,
                         graph_builder, flushed_graph_file, vector_cache,
                         next_object_id, panicked>>
      ]_vars

\* A seal that returned none although earlier epochs were sealed.
C9_Witness ==
    /\ ret.op = "seal_current_epoch" /\ ret.status = "None"
    /\ sealed_vector_files # <<>>
    /\ flushed_vector_files = <<>>

\* ------------------------------------------------------------------ C10
\* C10: when seal_current_epoch returns a delta, added_vector_files is the
\* list of files flushed since the previous delta, in flush order;
\* delta.next_vector_id is the pre-seal flushed_next, which becomes
\* sealed_next, and is the previous sealed_next plus the vector counts of
\* the added files; graph_file is the recorded flushed_graph_file;
\* afterwards flushed_vector_files is empty, flushed_graph_file is none and
\* sealed_vector_files is the old list followed by the added files.
C10_SealDelta ==
    [][ (Did("seal_current_epoch") /\ ret'.status = "Some") =>
          LET d == Unwrap(ret'.delta)
          IN  /\ d.added_vector_files = flushed_vector_files
              /\ d.next_vector_id = flushed_next_vector_id
              /\ sealed_next_vector_id' = flushed_next_vector_id
              /\ d.next_vector_id =
                    sealed_next_vector_id + SumCounts(d.added_vector_files)
              /\ d.graph_file = Unwrap(flushed_graph_file)
              /\ flushed_vector_files' = <<>>
              /\ flushed_graph_file' = None
              /\ sealed_vector_files' = sealed_vector_files \o d.added_vector_files
      ]_vars

C12_AbortedFlush ==
    [][ (Did("flush") /\ ret'.status = "Err") =>
          /\ ret'.stage = "vector_file" =>
                UNCHANGED <<flushed_next_vector_id, flushed_vector_files,
                            flushed_graph_file>>
          /\ ret'.stage \in {"graph_alloc", "graph_upload"} =>
                UNCHANGED flushed_graph_file
      ]_vars

\* A flush whose graph upload failed while an earlier flush's graph file
\* was recorded and a second vector file had just been pushed.
C12_Witness ==
    /\ ret.op = "flush" /\ ret.status = "Err" /\ ret.stage = "graph_upload"
    /\ IsSome(flushed_graph_file)
    /\ Len(flushed_vector_files) = 2

\* ------------------------------------------------------------------ C13
\* C13: after a flush or try_flush failed at a suspension point (object id
\* allocation, vector-file upload, graph upload, store read during graph
\* insertion) every id in [initial_next, building_next) still resolves
\* through get_vector, and a seal_current_epoch that follows a successful
\* flush does not panic and returns a delta for the flushed files.
C13_RecoverableAfterFailure ==
    [][ /\ (ret.op \in {"flush", "try_flush"} /\ ret.status = "Err") =>
              \A id \in committed_next_vector_id .. building_next - 1 :
                  get_vector(id).ok
        /\ (Did("seal_current_epoch") /\ ret.op = "flush" /\ ret.status = "Ok") =>
              /\ ret'.status # "Panic"
              /\ flushed_vector_files # <<>> => ret'.status = "Some"
      ]_vars

\* ------------------------------------------------------------------ C14
\* The files of a vector store info that hold id.
files_holding(files, id) ==
    {i \in 1..Len(files) :
        /\ files[i].start_vector_id <= id
        /\ id < files[i].start_vector_id + files[i].vector_count}

\* The invariant of a vector store info: files sorted and contiguous by
\* start_vector_id from 0, next_vector_id the sum of the vector counts.
valid_store_info(info) ==
    /\ \A i \in 1..Len(info.vector_files) :
          info.vector_files[i].start_vector_id =
              SumCounts(SubSeq(info.vector_files, 1, i - 1))
    /\ info.next_vector_id = SumCounts(info.vector_files)

\* What the orchestrator does with a delta: append the added files, take
\* the delta's next_vector_id.
apply_delta(info, d) ==
    [vector_files |-> info.vector_files \o d.added_vector_files,
     next_vector_id |-> d.next_vector_id]

\* C14: the store info the writer was constructed from satisfies the
\* invariant, and applying the delta of a seal_current_epoch to a store
\* info that satisfies it (the committed and sealed files, up to the sealed
\* boundary) yields one that satisfies it again, in which every
\* inserted-and-sealed id lies in exactly one file.
C14_DeltasKeepStoreInfoValid ==
    [][ /\ valid_store_info([vector_files |-> committed_vector_files,
                             next_vector_id |-> committed_next_vector_id])
        /\ (Did("seal_current_epoch") /\ ret'.status = "Some") =>
              LET info == [vector_files |->
                               committed_vector_files \o sealed_vector_files,
                           next_vector_id |-> sealed_next_vector_id]
                  after == apply_delta(info, Unwrap(ret'.delta))
              IN  valid_store_info(info) =>
                    /\ valid_store_info(after)
                    /\ \A id \in 0 .. sealed_next_vector_id' - 1 :
                          Cardinality(files_holding(after.vector_files, id)) = 1
      ]_vars

\* ------------------------------------------------------------------ C15
\* C15: on holders sorted and contiguous by start_vector_id (possibly none)
\* search_vector(holders, id) returns Ok((h, off)) with
\* holders[h].start + off = id and off < holders[h].count exactly when
\* holders[0].start <= id < holders[last].start + holders[last].count; the
\* error is "too small" when there is no holder or id < holders[0].start,
\* and "out of range" when id >= holders[last].start + holders[last].count.
C15_SearchVector ==
    LET hs == search_holders
        id == search_idx
        r == search_ret
        last == hs[Len(hs)]
    IN  r # NoSearch =>
          /\ r.ok <=> (/\ hs # <<>>
                       /\ hs[1].start_vector_id <= id
                       /\ id < last.start_vector_id + last.vector_count)
          /\ r.ok =>
                /\ r.h \in 0..(Len(hs) - 1)
                /\ hs[r.h + 1].start_vector_id + r.off = id
                /\ r.off >= 0 /\ r.off < hs[r.h + 1].vector_count
          /\ (hs = <<>> \/ id < hs[1].start_vector_id) =>
                (~r.ok /\ r.err = "too small")
          /\ (hs # <<>> /\ id >= last.start_vector_id + last.vector_count) =>
                (~r.ok /\ r.err = "out of range")

\* The last vector of the middle one of three holders was found.
C15_Witness ==
    /\ Len(search_holders) = 3
    /\ search_ret.ok /\ search_ret.h = 1 /\ search_ret.off = 1

\* ------------------------------------------------------------------ C16
\* x <= y on two VectorDistances (false when either is NaN or missing).
\* For two cosine distances, 1 - dx / sqrt(nx) <= 1 - dy / sqrt(ny) is
\* dy * sqrt(nx) <= dx * sqrt(ny), compared through the signed squares.
signed_square(d, n) == IF d >= 0 THEN d * d * n ELSE -(d * d * n)
dist_le(x, y) ==
    /\ x.kind = y.kind
    /\ x.kind \in {"f32", "cos"}
    /\ IF x.kind = "f32" THEN x.v <= y.v
       ELSE signed_square(y.dot, x.nn) <= signed_square(x.dot, y.nn)

\* C16 as stated: for every measure D among L1, L2, Cosine and
\* InnerProduct and all vectors a, b of equal dimension, D(a,a) <= D(a,b).
C16_SelfIsMinimal ==
    dist_ret.op = "measure" =>
        \A m \in Measurements : dist_le(dist_ret.self[m], dist_ret.other[m])

\* C16 amended: for the measures L1 and L2 and all vectors a, b of equal
\* dimension, D(a,a) <= D(a,b).
C16_SelfIsMinimalL1L2 ==
    dist_ret.op = "measure" =>
        \A m \in {"L1", "L2"} : dist_le(dist_ret.self[m], dist_ret.other[m])

\* Two different vectors of two components were measured.
C16_Witness ==
    /\ dist_ret.op = "measure"
    /\ Len(dist_target) = 2
    /\ dist_ret.other["L1"].v > 0 /\ dist_ret.other["L2"].v > dist_ret.other["L1"].v

\* ------------------------------------------------------------------ C17
\* The sum of the products x[i] * y[i] (or of their magnitudes) as a
\* number, without rounding.
RECURSIVE dot_from(_, _, _, _, _)
dot_from(x, y, i, acc, magnitudes) ==
    IF acc \in Int /\ i > Len(x) THEN acc
    ELSE dot_from(x, y, i + 1,
                  acc + (IF magnitudes THEN abs(x[i] * y[i]) ELSE x[i] * y[i]),
                  magnitudes)
dot(x, y) == dot_from(x, y, 1, 0, FALSE)

\* Every partial sum of the products, in whatever order, is an f32.
exact_in_f32(x, y) == dot_from(x, y, 1, 0, TRUE) <= 16777216

\* C17 as stated: inner_product_simd and inner_product_trivial return the
\* same value for every pair of equal-length vectors (shorter than a chunk,
\* whole chunks, chunks and a tail), the negated dot product (exactly so
\* where f32 can hold it), and both reject a length mismatch by assertion.
C17_SimdEqualsTrivial ==
    dist_ret.op = "inner_product" =>
        IF Len(dist_target) # Len(dist_other)
        THEN dist_ret.simd = Panicked /\ dist_ret.trivial = Panicked
        ELSE /\ dist_ret.simd = dist_ret.trivial
             /\ exact_in_f32(dist_target, dist_other) =>
                   dist_ret.trivial = F32(-dot(dist_target, dist_other))

\* C17 amended: both kernels reject a length mismatch by assertion and
\* return an f32 for equal lengths; whenever the products and all their
\* partial sums are exactly representable in f32 they return the same
\* value, the negated dot product, for every length.
C17_SimdEqualsTrivialWhenExact ==
    dist_ret.op = "inner_product" =>
        IF Len(dist_target) # Len(dist_other)
        THEN dist_ret.simd = Panicked /\ dist_ret.trivial = Panicked
        ELSE /\ dist_ret.simd.kind = "f32" /\ dist_ret.trivial.kind = "f32"
             /\ exact_in_f32(dist_target, dist_other) =>
                   /\ dist_ret.simd = dist_ret.trivial
                   /\ dist_ret.trivial = F32(-dot(dist_target, dist_other))

\* The kernels agreed on two vectors of four whole chunks (128 components).
C17_Witness ==
    /\ dist_ret.op = "inner_product"
    /\ Len(dist_target) = 4 * Lanes /\ Len(dist_other) = 4 * Lanes
    /\ dist_ret.simd = dist_ret.trivial
    /\ dist_ret.simd.v = -(4 * Lanes)

\* ------------------------------------------------------------------ C18
\* C18 as stated: at every point between writer operations graph_builder
\* is none if and only if no vector has ever been inserted into the index,
\* counting the vectors present at construction (the ids ever assigned are
\* those below building_next).
C18_GraphBuilderIffInserted ==
    (graph_builder = None) <=> (building_next = 0)

\* C18 amended: at every point between writer operations graph_builder is
\* none if no vector has ever been inserted, and present if a vector has
\* been added to the graph (next_pending_vector_id > 0); after a successful
\* try_flush or flush it is none if and only if no vector has ever been
\* inserted.
C18_GraphBuilderIffAdded ==
    /\ building_next = 0 => graph_builder = None
    /\ next_pending_vector_id > 0 => IsSome(graph_builder)
    /\ (ret.op \in {"flush", "try_flush"} /\ ret.status = "Ok") =>
          ((graph_builder = None) <=> (building_next = 0))

\* A successful try_flush made the graph of an index that had none.
C18_Witness ==
    /\ ret.op = "try_flush" /\ ret.status = "Ok"
    /\ committed_next_vector_id = 0
    /\ IsSome(graph_builder)

\* ------------------------------------------------------------------ C19
\* Every id of [lo, hi) reads back its own vector from the files of a tier.
tier_resolves(files, lo, hi) ==
    \A id \in lo .. hi - 1 :
        get_vector_block(vector_cache, files, id) = Ok(vec_of(id))

\* C19: a tier boundary is advanced only after the data of the tier is
\* installed (flushed_next_vector_id only after the vector file is uploaded,
\* cached and appended to flushed_vector_files), so that at every
\* suspension point inside flush and try_flush every id below a boundary
\* resolves from the file list of its tier.  An error at a suspension point
\* returns at once and undoes nothing, so the states a reader can observe
\* there are the states the failed operations leave, beside those between
\* successful ones.
C19_BoundariesAfterData ==
    /\ tier_resolves(committed_vector_files, 0, committed_next_vector_id)
    /\ tier_resolves(sealed_vector_files,
                     committed_next_vector_id, sealed_next_vector_id)
    /\ tier_resolves(flushed_vector_files,
                     sealed_next_vector_id, flushed_next_vector_id)
    /\ \A i \in 1..Len(flushed_vector_files) :
          flushed_vector_files[i].object_id \in DOMAIN vector_cache

\* ------------------------------------------------------------------ C20
\* The rows a cursor has still to deliver before its stream fails or ends:
\* those of the cache, then those of the chunks up to the first error.
RECURSIVE rows_ahead(_)
rows_ahead(stream) ==
    IF stream = <<>> \/ ~Head(stream).ok THEN <<>>
    ELSE Head(stream).rows \o rows_ahead(Tail(stream))

\* The stream fails before it yields another row.
RECURSIVE fails_first(_)
fails_first(stream) ==
    /\ stream # <<>>
    /\ \/ ~Head(stream).ok
       \/ Head(stream).rows = <<>> /\ fails_first(Tail(stream))

\* C20: a call of Cursor::next on a cursor that is not a snapshot returns
\* exactly one of three results: the next row of the cache or stream as a
\* Row when its timestamp is rw_timestamp, QueryWithNextRwTimestamp(t) when
\* that row has another timestamp t, QueryWithStartRwTimestamp(rw_timestamp)
\* when the cache is empty and the stream exhausted (an error of the stream
\* is handed on as the error it is).  The call leaves rw_timestamp as it
\* was, so every Row of one cursor carries the same timestamp.
C20_ThreeResults ==
    [][(cursor_ret'.op = "next" /\ ~is_snapshot) =>
        LET ahead == data_chunk_cache \o rows_ahead(values_stream)
        IN  /\ rw_timestamp' = rw_timestamp
            /\ IF ahead # <<>>
               THEN IF ahead[1][1] = rw_timestamp
                    THEN cursor_ret' = CursorRet("next", "Row", rw_timestamp, ahead[1])
                    ELSE cursor_ret' = CursorRet("next", "QueryWithNextRwTimestamp",
                                                 ahead[1][1], <<>>)
               ELSE IF fails_first(values_stream)
                    THEN cursor_ret'.kind = "Err"
                    ELSE cursor_ret' = CursorRet("next", "QueryWithStartRwTimestamp",
                                                 rw_timestamp, <<>>)]_vars

\* A cursor of the log store has returned a Row and has rows of another
\* timestamp still in its cache.
C20_Witness ==
    /\ ~is_snapshot
    /\ cursor_ret.op = "next" /\ cursor_ret.kind = "Row"
    /\ data_chunk_cache # <<>>
    /\ data_chunk_cache[1][1] # rw_timestamp

\* ------------------------------------------------------------------ C23
\* An insert has certainly happened since the previous delta: a file was
\* flushed since, or no delta was returned yet and the index has grown.
inserted_since_delta ==
    \/ flushed_vector_files # <<>>
    \/ /\ sealed_next_vector_id = committed_next_vector_id
       /\ building_next > committed_next_vector_id

\* C23: after every successful flush the building tier is empty and
\* flushed_next_vector_id = building_next = next_pending_vector_id, so a
\* seal_current_epoch directly after a successful flush meets its
\* precondition (no panic), and returns a delta whenever an insert happened
\* since the previous delta.
C23_SealAfterFlush ==
    [][ /\ (ret.op = "flush" /\ ret.status = "Ok") =>
              /\ builder_is_empty(building_vectors)
              /\ flushed_next_vector_id = building_next
              /\ next_pending_vector_id = building_next
        /\ (Did("seal_current_epoch") /\ ret.op = "flush" /\ ret.status = "Ok") =>
              /\ ret'.status # "Panic"
              /\ inserted_since_delta => ret'.status = "Some"
      ]_vars

\* ------------------------------------------------------------------ C24
\* C24: a flush directly after a successful flush (no insert in between,
\* same epoch) returns 0, allocates no object id, uploads nothing and
\* leaves flushed_vector_files, flushed_next_vector_id and
\* flushed_graph_file as they were.
C24_FlushIdempotent ==
    [][ (Did("flush") /\ ret.op = "flush" /\ ret.status = "Ok") =>
          /\ ret'.status = "Ok" /\ ret'.size = 0
          /\ ret'.graph_upload = None
          /\ UNCHANGED <<next_object_id, vector_cache, flushed_vector_files,
                         flushed_next_vector_id, flushed_graph_file>>
      ]_vars

\* ------------------------------------------------------------------ C25
\* C25: whenever seal_current_epoch returns a delta, its graph_file was
\* serialized from a graph of exactly delta.next_vector_id nodes (the
\* encoded size of a graph is the number of its nodes), also when an
\* earlier flush of the epoch failed in the graph upload after its vector
\* file was recorded.
C25_DeltaGraphCoversFiles ==
    (ret.op = "seal_current_epoch" /\ ret.status = "Some") =>
        Unwrap(ret.delta).graph_file.file_size = Unwrap(ret.delta).next_vector_id

\* ------------------------------------------------------------------ C26
\* C26: at every point between writer operations the graph has exactly
\* next_pending_vector_id nodes (none without a builder) and node k denotes
\* vector id k, also after add_pending_vectors_to_graph failed part-way and
\* the operation was tried again.
C26_GraphNodesArePending ==
    graph_nodes(graph_builder) = [k \in 1..next_pending_vector_id |-> k - 1]

\* ------------------------------------------------------------------ C27
\* The files are a sorted contiguous run that covers exactly [lo, hi).
covers(files, lo, hi) ==
    /\ \A i \in 1..Len(files) :
          files[i].start_vector_id = lo + SumCounts(SubSeq(files, 1, i - 1))
    /\ lo + SumCounts(files) = hi

\* C27: at every point between writer operations sealed_vector_files covers
\* exactly [committed_next, sealed_next) and flushed_vector_files exactly
\* [sealed_next, flushed_next), so that get_vector never hands an id to a
\* file list in which search_vector fails for it.
C27_TiersCoverRanges ==
    /\ covers(sealed_vector_files, committed_next_vector_id, sealed_next_vector_id)
    /\ covers(flushed_vector_files, sealed_next_vector_id, flushed_next_vector_id)
    /\ \A id \in 0 .. flushed_next_vector_id - 1 :
          search_vector(IF id < committed_next_vector_id THEN committed_vector_files
                        ELSE IF id < sealed_next_vector_id THEN sealed_vector_files
                        ELSE flushed_vector_files, id).ok

\* ------------------------------------------------------------------ C28
\* The object ids of the vector files a file list records.
recorded_objects(files) == {files[i].object_id : i \in 1..Len(files)}

\* C28: every vector file the file builder has finalized and uploaded
\* (through flush, or through the size threshold in try_flush) is recorded
\* once in the writer's file lists, with flushed_next_vector_id moved past
\* its ids; a delta takes the flushed files into the sealed ones, so no
\* uploaded file is orphaned and no id below building_next is without a
\* tier.
C28_NoOrphanedFile ==
    LET files == committed_vector_files \o sealed_vector_files \o flushed_vector_files
    IN  /\ DOMAIN vector_cache = recorded_objects(files)
        /\ Cardinality(recorded_objects(files)) = Len(files)
        /\ \A i \in 1..Len(files) :
              files[i].start_vector_id + files[i].vector_count <= flushed_next_vector_id
        /\ \A id \in 0 .. building_next - 1 :
              \/ Cardinality(files_holding(files, id)) = 1
              \/ /\ id >= flushed_next_vector_id
                 /\ builder_get_vector(building_vectors, id).ok

\* ------------------------------------------------------------------ C21
\* The step just taken was a FETCH.
FetchStep == fetch_ret'.op = "fetch" /\ UNCHANGED <<log_store, now>>

\* C21: when a fetch makes the cursor again after
\* QueryWithNextRwTimestamp(t) (need_check_timestamp) and the first chunk
\* of the new query is empty or its first row has another timestamp than
\* t, Cursor::new fails with the error of recycled data and no new cursor
\* is installed (the manager keeps the cursor it had); after
\* QueryWithStartRwTimestamp (not checked) Cursor::new does not fail so and
\* the new cursor has the timestamp of the first row, or the timestamp
\* queried from when the chunk is empty.
C21_CheckedRecreate ==
    [][ (FetchStep /\ IsSome(fetch_ret'.query)) =>
          LET q == Unwrap(fetch_ret'.query)
              differs == \/ q.first_chunk = <<>>
                         \/ q.first_chunk[1][1] # q.rw_timestamp
              kept == get_row_with_cursor(Manager, now).manager
          IN  /\ (q.need_check_timestamp /\ differs) =>
                    /\ fetch_ret'.status = "Err"
                    /\ fetch_ret'.err = "data may have been recycled"
                    /\ cursor_made' = kept.present
                    /\ Self' = kept.cursor
                    /\ cursor_need_drop_time' = kept.drop_time
              /\ (q.need_check_timestamp /\ ~differs) =>
                    /\ fetch_ret'.err # "data may have been recycled"
                    /\ cursor_made' /\ rw_timestamp' = q.rw_timestamp
              /\ ~q.need_check_timestamp =>
                    /\ fetch_ret'.err # "data may have been recycled"
                    /\ cursor_made'
                    /\ rw_timestamp' = IF q.first_chunk # <<>>
                                       THEN q.first_chunk[1][1]
                                       ELSE q.rw_timestamp
      ]_vars

\* A fetch has failed on recycled data: the query from the timestamp of
\* the next row came back with a first row of a later timestamp, and the
\* old cursor is still there.
C21_Witness ==
    /\ fetch_ret.op = "fetch" /\ fetch_ret.err = "data may have been recycled"
    /\ IsSome(fetch_ret.query)
    /\ Unwrap(fetch_ret.query).first_chunk # <<>>
    /\ Unwrap(fetch_ret.query).first_chunk[1][1] > Unwrap(fetch_ret.query).rw_timestamp
    /\ cursor_made

\* C22: get_row_with_cursor on a cursor past its drop time removes the cursor
\* from the map and returns the lifetime error without reading a row; a name
\* the map does not hold returns ItemNotFound and changes nothing, and the
\* map holds the name again only once a cursor is added.
C22_ExpiredRemoved ==
    [][ /\ (FetchStep /\ ~cursor_made) =>
              /\ cursor_ret'.kind = "ItemNotFound"
              /\ fetch_ret'.err = "ItemNotFound"
              /\ Manager' = Manager
              /\ fetched' = fetched
        /\ (FetchStep /\ cursor_made /\ now > cursor_need_drop_time) =>
              /\ cursor_ret'.kind = "Expired"
              /\ fetch_ret'.err = "Expired"
              /\ fetch_ret'.rows = <<>>
              /\ fetched' = fetched
              /\ Manager' = remove_cursor(Manager)
        /\ (~cursor_made /\ cursor_made') => fetch_ret'.op = "declare"
      ]_vars
C22_Witness ==
    /\ fetch_ret.op = "fetch"
    /\ fetch_ret.err = "Expired"
    /\ cursor_ret.kind = "Expired"
    /\ now > cursor_start
    /\ ~cursor_made

\* C30: after handle_fetch_cursor has re-queried and updated the cursor, the
\* get_row_with_cursor that follows returns a Row or
\* QueryWithStartRwTimestamp, never QueryWithNextRwTimestamp: the error
\* 'Fetch cursor, one must get a row or null' is never the result of a fetch.
C30_RowOrNull ==
    (fetch_ret.op = "fetch" /\ IsSome(fetch_ret.query)) =>
        /\ fetch_ret.err # "one must get a row or null"
        /\ fetch_ret.err = "" => cursor_ret.kind \in {"Row", "QueryWithStartRwTimestamp"}

\* C29: over a log store nothing is recycled from, the rows the fetches of a
\* cursor have returned are the rows of the log store from the cursor's
\* start onward, in order, none skipped and none returned twice, however
\* many fetches returned an empty result in between.
C29_FetchedInOrder ==
    cursor_start > 0 =>
        LET rows == query_ge(log_store, cursor_start)
        IN  /\ Len(fetched) <= Len(rows)
            /\ fetched = SubSeq(rows, 1, Len(fetched))

====
